---- MODULE Spec2Model ----
(***************************************************************************)
(* Model of app.py (yt-video-downloader): the helper functions             *)
(* is_supported_url, sanitize_filename and extract_formats, and the two    *)
(* API handlers get_formats and download_video with the temporary          *)
(* directory life cycle of a download job.                                 *)
(*                                                                         *)
(* Python strings that the code inspects character by character are        *)
(* sequences of one-character strings; host names are sequences of labels  *)
(* and separators.  The engine (yt_dlp), the filesystem and the framework  *)
(* that calls the handlers are the environment: their outcomes are chosen  *)
(* nondeterministically.                                                   *)
(***************************************************************************)
EXTENDS Integers, Sequences, FiniteSets, TLC

VARIABLES
    sanIn,      \* sanitize_filename: the string given to the first call
    sanOuts,    \* sanitize_filename: results of the successive calls
    fmtIn,      \* extract_formats: info_dict['formats']
    fmtOut,     \* extract_formats: the returned triple, or NoResult
    pc,                 \* where the request being served is
    req,                \* the request: endpoint, url, format_id, filename
    temp_dir_path,      \* download_video: the directory of the job, NoDir before mkdtemp
    dirs,               \* the temporary directories that exist on the filesystem
    tmpFiles,           \* the files in the directory of the job
    job,                \* download_video: the locals that describe the job
    exc,                \* the exception on its way to the except block
    response,           \* what the handler returned
    engineLog,          \* the engine calls made for the request, in order
    cleanupRegistered,  \* after_this_request(cleanup) was called
    rmFailed,           \* shutil.rmtree raised during the request
    bodySent,           \* the response body has reached the client
    info_dict,          \* what ydl.extract_info returned to the handler, NoInfo if nothing
    jobPc,      \* concurrent downloads: where each request is in download_video
    jobDir,     \* concurrent downloads: temp_dir_path of each request
    jobFile,    \* concurrent downloads: actual_temp_filepath of each request
    tree,       \* concurrent downloads: the files of each existing temporary directory
    lastOp      \* concurrent downloads: the files the latest filesystem step touched

helperVars == <<sanIn, sanOuts, fmtIn, fmtOut>>

serviceVars == <<pc, req, temp_dir_path, dirs, tmpFiles, job, exc, response, engineLog,
                 cleanupRegistered, rmFailed, bodySent, info_dict>>

jobVars == <<jobPc, jobDir, jobFile, tree, lastOp>>

vars == <<helperVars, serviceVars, jobVars>>

(***************************************************************************)
(* Bounds of the model.                                                    *)
(***************************************************************************)
MaxTail == 3        \* free characters that follow the run of letters in a file name
MaxFormats == 2     \* length of a raw format list
MaxDirs == 2        \* names tempfile.mkdtemp can choose from
MaxEngineFormats == 2   \* length of the format list the engine returns to a handler
MaxRanked == 3          \* length of the format list whose ranking is examined
MaxJobs == 2            \* download requests served at the same time

(***************************************************************************)
(* Small helpers on sequences.                                             *)
(***************************************************************************)
Min(a, b) == IF a <= b THEN a ELSE b

SeqsUpTo(S, n) == UNION {[1..k -> S] : k \in 0..n}

Run(c, n) == [i \in 1..n |-> c]

RemoveAt(s, i) == [j \in 1..(Len(s) - 1) |-> IF j < i THEN s[j] ELSE s[j + 1]]

(***************************************************************************)
(* sanitize_filename (app.py 52-59).                                       *)
(***************************************************************************)
\* the character class of the first re.sub: \ / * ? : " < > |
InvalidChars == {"\\", "/", "*", "?", ":", "\"", "<", ">", "|"}

\* the character class [\s_] of the second re.sub
WsOrUnderscore == {" ", "\t", "\n", "_"}

\* the argument of str.strip
StripChars == {"_", " "}

\* the slice bound of sanitized[:150]
TruncLen == 150

\* "downloaded_video"
DefaultName ==
    <<"d", "o", "w", "n", "l", "o", "a", "d", "e", "d", "_", "v", "i", "d", "e", "o">>

\* re.sub(r'[\\/*?:"<>|]', "", filename)
RemoveInvalid(s) == SelectSeq(s, LAMBDA c : c \notin InvalidChars)

\* re.sub(r'[\s_]+', '_', s): every maximal run of the class becomes one "_"
CollapseRuns(s) ==
    LET marked == [i \in 1..Len(s) |->
                     IF s[i] \notin WsOrUnderscore THEN s[i]
                     ELSE IF i > 1 /\ s[i - 1] \in WsOrUnderscore THEN ""
                     ELSE "_"]
    IN  SelectSeq(marked, LAMBDA c : c # "")

\* s.strip('_ ')
Strip(s) ==
    LET keep == {i \in 1..Len(s) : s[i] \notin StripChars}
    IN  IF keep = {} THEN <<>>
        ELSE LET lo == CHOOSE i \in keep : \A j \in keep : i <= j
                 hi == CHOOSE i \in keep : \A j \in keep : j <= i
             IN  SubSeq(s, lo, hi)

\* s[:150]
Truncate(s) == SubSeq(s, 1, Min(Len(s), TruncLen))

sanitize_filename(filename) ==
    LET sanitized == Truncate(Strip(CollapseRuns(RemoveInvalid(filename))))
    IN  IF sanitized = <<>> THEN DefaultName ELSE sanitized

(***************************************************************************)
(* Inputs of sanitize_filename: a run of letters of length 0 or close to   *)
(* the truncation limit, followed by up to MaxTail free characters.        *)
(***************************************************************************)
NameChars == {"a", "_", " ", ":"}

RunLens == {0} \cup ((TruncLen - MaxTail)..TruncLen)

SanitizeInputs ==
    {Run("a", n) \o t : n \in RunLens, t \in SeqsUpTo(NameChars, MaxTail)}

(***************************************************************************)
(* Python values of a raw format descriptor.  Every value is a record of   *)
(* one shape: t is the type tag, s the text of a str, n the number of an   *)
(* int or bool.  Absent is a key that the dictionary does not have.        *)
(***************************************************************************)
Absent == [t |-> "absent", s |-> "", n |-> 0]
None == [t |-> "None", s |-> "", n |-> 0]
Str(x) == [t |-> "str", s |-> x, n |-> 0]
Num(k) == [t |-> "num", s |-> "", n |-> k]
True == [t |-> "bool", s |-> "", n |-> 1]
\* a string of decimal digits that int() reads as k
Digits(k) == [t |-> "str", s |-> "digits", n |-> k]

\* f.get(key): None when the key is absent
Get(f, key) == IF f[key] = Absent THEN None ELSE f[key]

\* f.get(key, default)
GetOr(f, key, default) == IF f[key] = Absent THEN default ELSE f[key]

\* the truth value Python gives v in `not v`, `if v`, `a or b`
Truthy(v) ==
    \/ v.t = "str" /\ v.s # ""
    \/ v.t \in {"num", "bool"} /\ v.n # 0
    \/ v.t \in {"label", "size"}

\* the text an f-string gives v
Text(v) == IF v.t = "None" THEN "None" ELSE v.s

\* a or b
Or(a, b) == IF Truthy(a) THEN a ELSE b

\* isinstance(v, (int, float))
IsNumber(v) == v.t \in {"num", "bool"}

(***************************************************************************)
(* extract_formats (app.py 62-172).                                        *)
(***************************************************************************)
\* a slip: the live-stream test is left out
SkipFormatNoLive(f) ==
    \/ ~Truthy(Get(f, "url"))
    \/ ~Truthy(Get(f, "format_id"))

\* line 74: the descriptor is skipped
SkipFormat(f) ==
    \/ ~Truthy(Get(f, "url"))
    \/ ~Truthy(Get(f, "format_id"))
    \/ Truthy(Get(f, "is_live"))

\* line 78
FileSize(f) == Or(Get(f, "filesize"), Get(f, "filesize_approx"))

\* line 80: f"{filesize / (1024 * 1024):.2f} MB" (n in hundredths of a MB) or "N/A"
SizeMb(f) ==
    IF Truthy(FileSize(f))
    THEN [t |-> "size", s |-> "MB", n |-> (FileSize(f).n * 100 + 524288) \div 1048576]
    ELSE Str("N/A")

\* a slip: only the resolution is looked at, not the height
IsVideoFormatNoHeight(f) ==
    /\ Get(f, "vcodec") # Str("none")
    /\ Truthy(Get(f, "resolution"))

\* a slip: the video codec is not looked at
IsVideoFormatNoCodec(f) ==
    Truthy(Or(Get(f, "resolution"), Get(f, "height")))

\* line 88: the test of the video branch
IsVideoFormat(f) ==
    /\ Get(f, "vcodec") # Str("none")
    /\ Truthy(Or(Get(f, "resolution"), Get(f, "height")))

\* line 114: the test of the audio branch (reached when the video test fails)
IsAudioFormat(f) ==
    /\ Get(f, "acodec") # Str("none")
    /\ Get(f, "vcodec") = Str("none")

\* int(h) gives a number: h is a number or a string of digits
IntReads(h) == IsNumber(h) \/ (h.t = "str" /\ h.s = "digits")

\* a slip: int() is not guarded, a height that is not a number raises
HeightRaisesUnguarded(f) ==
    LET h == GetOr(f, "height", Num(0))
    IN  ~IntReads(h)

\* lines 89-91: the ValueError or TypeError of int() is caught
HeightRaises(f) == FALSE

\* lines 89-91: int(f.get('height', 0)), 0 when int() raises (None, a string
\* that is not a number)
HeightOf(f) ==
    LET h == GetOr(f, "height", Num(0))
    IN  IF IntReads(h) THEN h.n ELSE 0

\* lines 94-110
VideoEntry(f) ==
    [quality    |-> GetOr(f, "format_note", GetOr(f, "resolution", Str("Unknown Video"))),
     resolution |-> Get(f, "resolution"),
     size       |-> SizeMb(f),
     id         |-> f["format_id"],
     vcodec     |-> Get(f, "vcodec"),
     acodec     |-> Get(f, "acodec"),
     ext        |-> GetOr(f, "ext", Str("mp4")),
     url        |-> Get(f, "url"),
     height     |-> HeightOf(f),
     fps        |-> Get(f, "fps"),
     protocol   |-> Get(f, "protocol"),
     filesize   |-> FileSize(f)]

\* lines 116-122
AudioQuality(f) ==
    IF Truthy(Get(f, "format_note")) THEN Get(f, "format_note")
    ELSE IF IsNumber(Get(f, "abr"))
         THEN [t |-> "label", s |-> "~kbps", n |-> Get(f, "abr").n]
         ELSE [t |-> "label", s |-> Text(GetOr(f, "acodec", Str("?"))), n |-> 0]

\* lines 125-135
AudioEntry(f) ==
    [quality  |-> AudioQuality(f),
     abr      |-> Get(f, "abr"),
     size     |-> SizeMb(f),
     filesize |-> FileSize(f),
     id       |-> f["format_id"],
     acodec   |-> Get(f, "acodec"),
     ext      |-> GetOr(f, "ext", Str("m4a")),
     url      |-> Get(f, "url"),
     protocol |-> Get(f, "protocol")]

NoBest == [id |-> Absent]

\* a slip: an entry of equal bitrate replaces the best one found before it
BestAfterLatest(best, e) ==
    IF IsNumber(e.abr)
    THEN LET best_abr_so_far ==
                 IF best # NoBest /\ IsNumber(best.abr) THEN best.abr.n ELSE -1
         IN  IF e.abr.n >= best_abr_so_far THEN e ELSE best
    ELSE IF best = NoBest THEN e ELSE best

\* a slip: the bitrate to beat starts at 0, not at -1
BestAfterFromZero(best, e) ==
    IF IsNumber(e.abr)
    THEN LET best_abr_so_far ==
                 IF best # NoBest /\ IsNumber(best.abr) THEN best.abr.n ELSE 0
         IN  IF e.abr.n > best_abr_so_far THEN e ELSE best
    ELSE IF best = NoBest THEN e ELSE best

\* lines 140-151: the running best audio-only entry after seeing entry e
BestAfter(best, e) ==
    IF IsNumber(e.abr)
    THEN LET best_abr_so_far ==
                 IF best # NoBest /\ IsNumber(best.abr) THEN best.abr.n ELSE -1
         IN  IF e.abr.n > best_abr_so_far THEN e ELSE best
    ELSE IF best = NoBest THEN e ELSE best

\* lines 72-151: one iteration of the loop over the descriptors
ProcessFormat(acc, f) ==
    IF SkipFormat(f) THEN acc
    ELSE IF IsVideoFormat(f)
         THEN [acc EXCEPT !.video = Append(@, VideoEntry(f))]
    ELSE IF IsAudioFormat(f)
         THEN [acc EXCEPT !.audio = Append(@, AudioEntry(f)),
                          !.best = BestAfter(@, AudioEntry(f))]
    ELSE acc

RECURSIVE ProcessAll(_, _, _)
ProcessAll(acc, formats, i) ==
    IF i > Len(formats) THEN acc
    ELSE ProcessAll(ProcessFormat(acc, formats[i]), formats, i + 1)

\* line 156: key (-height, -(fps or 0)); the engine gives fps as a number or None
FpsKey(x) == IF IsNumber(x.fps) THEN x.fps.n ELSE 0

VideoBefore(a, b) ==
    \/ a.height > b.height
    \/ a.height = b.height /\ FpsKey(a) > FpsKey(b)

\* a slip: a bitrate that is not a number counts as 1, not as -1
AbrKeyNoneAsOne(x) == IF IsNumber(x.abr) THEN x.abr.n ELSE 1

\* line 158: key -(abr if isinstance(abr, (int, float)) else -1)
AbrKey(x) == IF IsNumber(x.abr) THEN x.abr.n ELSE -1

AudioBefore(a, b) == AbrKey(a) > AbrKey(b)

\* list.sort(key=...) is stable and ascending in the key: the element at
\* index i goes to the place that counts the elements whose key is smaller and
\* the elements of equal key that precede it.
\* line 156
SortVideo(s) ==
    LET place(i) == 1 + Cardinality({j \in 1..Len(s) :
                                       \/ VideoBefore(s[j], s[i])
                                       \/ ~VideoBefore(s[i], s[j]) /\ j < i})
    IN  [r \in 1..Len(s) |-> s[CHOOSE i \in 1..Len(s) : place(i) = r]]

\* line 158
SortAudio(s) ==
    LET place(i) == 1 + Cardinality({j \in 1..Len(s) :
                                       \/ AudioBefore(s[j], s[i])
                                       \/ ~AudioBefore(s[i], s[j]) /\ j < i})
    IN  [r \in 1..Len(s) |-> s[CHOOSE i \in 1..Len(s) : place(i) = r]]

\* lines 161-169
AudioSummary(best) ==
    IF best = NoBest THEN None
    ELSE [quality |-> <<"Audio Only", best.quality>>,
          size    |-> best.size,
          id      |-> best.id,
          ext     |-> best.ext]

\* line 80: filesize / (1024 * 1024) raises TypeError on a size that is not a
\* number
SizeRaises(f) == Truthy(FileSize(f)) /\ ~IsNumber(FileSize(f))

\* line 156: -(x.get('fps') or 0) raises TypeError on an fps that is not a
\* number; the key is computed for every entry of the video list
FpsRaises(f) == Truthy(Get(f, "fps")) /\ ~IsNumber(Get(f, "fps"))

\* lines 72-158: an exception leaves extract_formats
Raises(formats) ==
    \E i \in 1..Len(formats) :
        /\ ~SkipFormat(formats[i])
        /\ \/ SizeRaises(formats[i])
           \/ IsVideoFormat(formats[i])
              /\ (HeightRaises(formats[i]) \/ FpsRaises(formats[i]))

\* the call did not return: the exception goes to the caller
Raised == [kind |-> "raised", video |-> <<>>, audio |-> <<>>, best |-> None]

\* lines 67-172
extract_formats(formats) ==
    LET acc == ProcessAll([video |-> <<>>, audio |-> <<>>, best |-> NoBest], formats, 1)
    IN  IF Raises(formats) THEN Raised
        ELSE [kind  |-> "formats",
              video |-> SortVideo(acc.video),
              audio |-> SortAudio(acc.audio),
              best  |-> AudioSummary(acc.best)]

\* a raw format descriptor with the fields the handlers and extract_formats read
Descriptor(url, format_id, is_live, vcodec, acodec, resolution, height, fps, abr) ==
    [url |-> url, format_id |-> format_id, is_live |-> is_live,
     vcodec |-> vcodec, acodec |-> acodec, resolution |-> resolution,
     height |-> height, fps |-> fps, abr |-> abr,
     filesize |-> Absent, filesize_approx |-> Num(1048576), format_note |-> Absent,
     ext |-> Absent, protocol |-> Str("https")]

(***************************************************************************)
(* is_supported_url (app.py 28-50).  A host name or netloc is the sequence *)
(* of its labels and separators.                                           *)
(***************************************************************************)
\* lines 28-34 (the list repeats some entries; `any` reads it as a set)
SUPPORTED_DOMAINS ==
    {<<"youtube", ".", "com">>, <<"www", ".", "youtube", ".", "com">>,
     <<"m", ".", "youtube", ".", "com">>, <<"youtu", ".", "be">>,
     <<"youtube-nocookie", ".", "com">>, <<"www", ".", "youtube-nocookie", ".", "com">>,
     <<"https:", "/", "/", "youtu", ".", "be", "/", "rgKf6eVtdZU", "?",
       "si=WH0uTSy0I9lkw3lg">>,
     <<"m", ".", "youtu", ".", "be">>}

\* str.lower on the labels the model uses
Lower(s) == [i \in 1..Len(s) |-> IF s[i] = "YouTube" THEN "youtube" ELSE s[i]]

\* str.endswith
EndsWith(s, suffix) ==
    /\ Len(suffix) <= Len(s)
    /\ SubSeq(s, Len(s) - Len(suffix) + 1, Len(s)) = suffix

\* lines 37-50; url.given is FALSE for a missing or empty parameter, and
\* url.netloc is what urlparse gives once the scheme is in place
is_supported_url(url) ==
    IF ~url.given THEN FALSE
    ELSE LET domain == Lower(url.netloc)
         IN  \E supported \in SUPPORTED_DOMAINS :
                 \/ domain = supported
                 \/ /\ \E i \in 1..Len(supported) : supported[i] = "."
                    /\ EndsWith(domain, <<".">> \o supported)

(***************************************************************************)
(* The external engine (yt_dlp) and the texts of the errors it raises.     *)
(* A text is its name and the set of the phrases the handlers look for in  *)
(* it.                                                                     *)
(***************************************************************************)
ErrText(id, has) == [id |-> id, has |-> has]

NoText == ErrText("", {})

EngineTexts ==
    {ErrText("ERROR: Private video", {"Private video"}),
     ErrText("ERROR: Video unavailable", {"Video unavailable"}),
     ErrText("ERROR: Sign in to confirm you're not a bot",
             {"Sign in to confirm you're not a bot"}),
     ErrText("ERROR: HTTP Error 429: Too Many Requests", {"429", "Too Many Requests"}),
     ErrText("ERROR: ffmpeg not found", {"ffmpeg"}),
     ErrText("ERROR: unable to download video data", {})}

Msg(m, raw) == [msg |-> m, raw |-> raw]

NoMsg == Msg("", <<>>)

\* lines 250-259: the user-facing message for a DownloadError text
ClassifyError(text) ==
    IF "Unsupported URL" \in text.has THEN "Invalid or unsupported URL."
    ELSE IF "Video unavailable" \in text.has THEN "This video is unavailable."
    ELSE IF "Private video" \in text.has THEN "Private videos cannot be accessed."
    ELSE IF "confirm your age" \in text.has
         THEN "Age-restricted video. Cannot download automatically."
    ELSE IF "Premiere" \in text.has \/ "live event" \in text.has
         THEN "Livestreams/Premieres cannot be downloaded until finished."
    ELSE IF "429" \in text.has \/ "Too Many Requests" \in text.has
         THEN "Rate limited by YouTube. Please wait and try again later."
    ELSE IF "Sign in to confirm you're not a bot" \in text.has
         THEN "YouTube requires bot verification. Cannot download automatically."
    ELSE "Could not fetch video data (may be region locked, deleted, etc)."

(***************************************************************************)
(* State of the service: one request at a time.                            *)
(***************************************************************************)
NoDir == 0

MissingUrl == [given |-> FALSE, scheme |-> FALSE, netloc |-> <<>>]

Url(scheme, netloc) == [given |-> TRUE, scheme |-> scheme, netloc |-> netloc]

NoRequest ==
    [endpoint |-> "", url |-> MissingUrl, format_id |-> "", filename |-> <<>>]

NoFile == [base |-> <<>>, ext |-> ""]

NoJob ==
    [selected |-> None, needs_audio_merge |-> FALSE, actual_ext |-> None,
     final_format_selector |-> [id |-> "", plus |-> ""],
     final_filename |-> NoFile, actual_temp_filepath |-> NoFile]

NoInfo == [formats |-> <<>>, is_live |-> Absent]

NoExc == [type |-> "", code |-> 0, description |-> NoMsg]

NoResponse ==
    [status |-> 0, kind |-> "", error |-> NoMsg, formats |-> [kind |-> "none"],
     file |-> NoFile]

JsonError(status, error) ==
    [status |-> status, kind |-> "json", error |-> error,
     formats |-> [kind |-> "none"], file |-> NoFile]

\* abort(code, description=...): raises an HTTPException
Abort(code, description) ==
    [type |-> "HTTPException", code |-> code, description |-> description]

\* raise yt_dlp.utils.DownloadError(text)
DownloadError(text) ==
    [type |-> "DownloadError", code |-> 0, description |-> Msg("", <<text>>)]

\* any other exception (OSError, AttributeError, ...)
OtherError == [type |-> "Exception", code |-> 0, description |-> NoMsg]

\* line 207 / 281: the scheme is put in front when missing
WithScheme(url) == [url EXCEPT !.scheme = TRUE]

(***************************************************************************)
(* get_formats (app.py 201-265).                                           *)
(***************************************************************************)
\* lines 212-219 and 293: metadata only, no format selector
InfoOpts == [format |-> [id |-> "", plus |-> ""], merge_output_format |-> None,
             skip_download |-> TRUE]

EngineCall(call, url, opts, raised, text) ==
    [call |-> call, url |-> url, opts |-> opts, raised |-> raised, text |-> text]

\* lines 234-246: the response for the metadata the engine returned
FormatsResponse(info) ==
    LET found == extract_formats(info.formats)
    IN  IF found = Raised
        THEN \* lines 262-265: the TypeError is caught by `except Exception`
             JsonError(500, Msg("An unexpected server error occurred while fetching formats.", <<>>))
        ELSE IF found.video = <<>> /\ found.audio = <<>>
        THEN JsonError(400, Msg(ClassifyError(
                 IF Truthy(Get(info, "is_live"))
                 THEN ErrText("Live streams cannot be downloaded until finished.", {})
                 ELSE ErrText("No downloadable video or audio formats found for this video.",
                              {})), <<>>))
        ELSE [status |-> 200, kind |-> "json", error |-> NoMsg, formats |-> found,
              file |-> NoFile]

\* lines 204-208: the request is turned down before the engine is called
GetFormatsRejected(url) ==
    /\ UNCHANGED <<helperVars, jobVars>>
    /\ pc = "idle"
    /\ ~url.given \/ ~is_supported_url(WithScheme(url))
    /\ req' = [NoRequest EXCEPT !.endpoint = "get-formats", !.url = url]
    /\ response' = JsonError(400, Msg(IF ~url.given THEN "Missing 'url' parameter"
                                      ELSE "Invalid or unsupported URL.", <<>>))
    /\ engineLog' = <<>>
    /\ pc' = "after_request"
    /\ UNCHANGED <<temp_dir_path, dirs, tmpFiles, job, exc, cleanupRegistered, rmFailed,
                   bodySent, info_dict>>

\* lines 220-265 for an accepted url; outcome is what ydl.extract_info does
GetFormatsAccepted(url, outcome) ==
    /\ UNCHANGED <<helperVars, jobVars>>
    /\ pc = "idle"
    /\ url.given /\ is_supported_url(WithScheme(url))
    /\ req' = [NoRequest EXCEPT !.endpoint = "get-formats", !.url = url]
    /\ engineLog' = <<EngineCall("extract_info", WithScheme(url), InfoOpts,
                                 outcome.kind \in {"DownloadError", "Exception"},
                                 outcome.text)>>
    /\ response' =
         CASE outcome.kind = "DownloadError" ->
                  JsonError(400, Msg(ClassifyError(outcome.text), <<>>))
           [] outcome.kind = "Exception" ->
                  JsonError(500, Msg("An unexpected server error occurred while fetching formats.", <<>>))
           [] outcome.kind = "None" ->
                  JsonError(400, Msg(ClassifyError(
                      ErrText("No video information extracted.", {})), <<>>))
           [] outcome.kind = "info" -> FormatsResponse(outcome.info)
    /\ info_dict' = IF outcome.kind = "None" THEN None ELSE outcome.info
    /\ pc' = "after_request"
    /\ UNCHANGED <<temp_dir_path, dirs, tmpFiles, job, exc, cleanupRegistered, rmFailed,
                   bodySent>>

(***************************************************************************)
(* download_video (app.py 268-423), one action per step of the handler.    *)
(***************************************************************************)
\* the names tempfile.mkdtemp can give
DirNames == 1..MaxDirs

\* "download_temp", the fixed stem of the output template (line 321)
DownloadTemp == <<"download_temp">>

\* os.path.splitext(name)[0]: the name up to its last dot, when a character
\* other than a dot precedes that dot
SplitextRoot(name) ==
    LET dots == {i \in 1..Len(name) : name[i] = "."}
    IN  IF dots = {} THEN name
        ELSE LET last == CHOOSE i \in dots : \A j \in dots : j <= i
             IN  IF \E j \in 1..(last - 1) : name[j] # "."
                 THEN SubSeq(name, 1, last - 1)
                 ELSE name

\* lines 275-286: parameters are read and checked
DownloadStart(url, format_id, filename) ==
    /\ UNCHANGED <<helperVars, jobVars>>
    /\ pc = "idle"
    /\ req' = [endpoint |-> "download", url |-> url, format_id |-> format_id,
               filename |-> filename]
    /\ IF ~url.given \/ format_id = ""
       THEN /\ response' = JsonError(400, Msg("Missing parameters", <<>>))
            /\ pc' = "after_request"
       ELSE /\ response' = NoResponse
            /\ pc' = "mkdtemp"
    /\ UNCHANGED <<temp_dir_path, dirs, tmpFiles, job, exc, engineLog, cleanupRegistered,
                   rmFailed, bodySent, info_dict>>

\* lines 287-290: tempfile.mkdtemp gives a directory that did not exist
MakeTempDir ==
    /\ UNCHANGED <<helperVars, jobVars>>
    /\ pc = "mkdtemp"
    /\ \E d \in DirNames \ dirs :
           /\ dirs' = dirs \cup {d}
           /\ temp_dir_path' = d
    /\ pc' = "resolve"
    /\ UNCHANGED <<req, tmpFiles, job, exc, response, engineLog, cleanupRegistered,
                   rmFailed, bodySent, info_dict>>

\* line 289 raising (no free name, no space): nothing was created
MakeTempDirFails ==
    /\ UNCHANGED <<helperVars, jobVars>>
    /\ pc = "mkdtemp"
    /\ exc' = OtherError
    /\ pc' = "except"
    /\ UNCHANGED <<req, temp_dir_path, dirs, tmpFiles, job, response, engineLog,
                   cleanupRegistered, rmFailed, bodySent, info_dict>>

\* a slip: when no descriptor has the requested id the first one is taken
SelectedFormatOrFirst(formats, format_id) ==
    LET hits == {i \in 1..Len(formats) : Get(formats[i], "format_id") = Str(format_id)}
    IN  IF hits = {} THEN (IF formats = <<>> THEN None ELSE formats[1])
        ELSE formats[CHOOSE i \in hits : \A j \in hits : i <= j]

\* line 300: the first descriptor with the requested format id, or None
SelectedFormat(formats, format_id) ==
    LET hits == {i \in 1..Len(formats) : Get(formats[i], "format_id") = Str(format_id)}
    IN  IF hits = {} THEN None
        ELSE formats[CHOOSE i \in hits : \A j \in hits : i <= j]

\* line 306
NeedsAudioMerge(f) ==
    /\ Get(f, "vcodec") # Str("none")
    /\ Get(f, "acodec") = Str("none")

\* lines 304-319: extension, selector and final name for the selected descriptor
PlanJob(f, format_id, filename) ==
    LET merge == NeedsAudioMerge(f)
        ext == IF merge THEN Str("mkv") ELSE GetOr(f, "ext", Str("mp4"))
    IN  [selected |-> f,
         needs_audio_merge |-> merge,
         actual_ext |-> ext,
         final_format_selector |->
             [id |-> format_id, plus |-> IF merge THEN "+bestaudio/bestaudio" ELSE ""],
         final_filename |->
             [base |-> sanitize_filename(SplitextRoot(filename)), ext |-> Text(ext)],
         actual_temp_filepath |-> NoFile]

\* lines 324-333
DownloadOpts(j) ==
    [format |-> j.final_format_selector,
     merge_output_format |-> IF j.needs_audio_merge THEN j.actual_ext ELSE None,
     skip_download |-> FALSE]

\* line 302: raise DownloadError(f"Format ID {format_id} not found ...")
FormatNotFound == DownloadError(ErrText("Format ID not found for URL on download request.", {}))

\* lines 292-298: metadata is fetched again
ResolveFormat(outcome) ==
    /\ UNCHANGED <<helperVars, jobVars>>
    /\ pc = "resolve"
    /\ engineLog' = Append(engineLog,
           EngineCall("extract_info", WithScheme(req.url), InfoOpts,
                      outcome.kind \in {"DownloadError", "Exception"}, outcome.text))
    /\ info_dict' = IF outcome.kind = "None" THEN None ELSE outcome.info
    /\ CASE outcome.kind = "DownloadError" ->
                /\ exc' = DownloadError(outcome.text)
                /\ pc' = "except"
         [] outcome.kind \in {"Exception", "None"} ->
                \* info_dict.get on None raises AttributeError
                /\ exc' = OtherError
                /\ pc' = "except"
         [] outcome.kind = "info" ->
                /\ exc' = exc
                /\ pc' = "select"
    /\ UNCHANGED <<req, temp_dir_path, dirs, tmpFiles, job, response, cleanupRegistered,
                   rmFailed, bodySent>>

\* lines 298-333: the format is looked up in the refreshed list and the job
\* is planned, or line 302 raises; the list is not read after the lookup and
\* is dropped from the state
SelectFormat ==
    /\ UNCHANGED <<helperVars, jobVars>>
    /\ pc = "select"
    /\ LET f == SelectedFormat(info_dict.formats, req.format_id)
       IN  IF f = None
           THEN /\ exc' = FormatNotFound
                /\ pc' = "except"
                /\ job' = job
           ELSE /\ job' = PlanJob(f, req.format_id, req.filename)
                /\ pc' = "download"
                /\ exc' = exc
    /\ info_dict' = NoInfo
    /\ UNCHANGED <<req, temp_dir_path, dirs, tmpFiles, response, engineLog,
                   cleanupRegistered, rmFailed, bodySent>>

\* the files the engine may leave in the directory
EngineOutputs ==
    {{}, {[base |-> DownloadTemp, ext |-> "mp4"]},
     {[base |-> DownloadTemp, ext |-> "mkv"], [base |-> DownloadTemp, ext |-> "f137.webm"]}}

\* lines 339-341: ydl_down.download returns
RunDownload(written) ==
    /\ UNCHANGED <<helperVars, jobVars>>
    /\ pc = "download"
    /\ engineLog' = Append(engineLog,
           EngineCall("download", WithScheme(req.url), DownloadOpts(job), FALSE, NoText))
    /\ tmpFiles' = written
    /\ pc' = "locate"
    /\ UNCHANGED <<req, temp_dir_path, dirs, job, exc, response, cleanupRegistered,
                   rmFailed, bodySent, info_dict>>

\* a slip: the exception of ydl_down.download is logged and the handler
\* goes on to look for the file
RunDownloadFailsIgnored(text, written) ==
    /\ UNCHANGED <<helperVars, jobVars>>
    /\ pc = "download"
    /\ engineLog' = Append(engineLog,
           EngineCall("download", WithScheme(req.url), DownloadOpts(job), TRUE, text))
    /\ tmpFiles' = written
    /\ pc' = "locate"
    /\ UNCHANGED <<req, temp_dir_path, dirs, job, exc, response, cleanupRegistered,
                   rmFailed, bodySent, info_dict>>

\* lines 342-349: ydl_down.download raises, with some files left behind
RunDownloadFails(text, written) ==
    /\ UNCHANGED <<helperVars, jobVars>>
    /\ pc = "download"
    /\ engineLog' = Append(engineLog,
           EngineCall("download", WithScheme(req.url), DownloadOpts(job), TRUE, text))
    /\ tmpFiles' = written
    /\ exc' = IF job.needs_audio_merge /\ "ffmpeg" \in text.has
              THEN Abort(500,
                         Msg("Download failed: FFmpeg utility may be missing or not found on the server. It's required for merging audio/video.", <<>>))
              ELSE Abort(500,
                         Msg("Download failed during server processing: ", <<text>>))
    /\ pc' = "except"
    /\ UNCHANGED <<req, temp_dir_path, dirs, job, response, cleanupRegistered,
                   rmFailed, bodySent, info_dict>>

\* lines 353-359: glob for download_temp.* and take the first match
LocateFile ==
    /\ UNCHANGED <<helperVars, jobVars>>
    /\ pc = "locate"
    /\ LET downloaded_files == {f \in tmpFiles : f.base = DownloadTemp}
       IN  IF downloaded_files = {}
           THEN /\ exc' = Abort(500, Msg("Server error: Output file missing after download.",
                                         <<>>))
                /\ pc' = "except"
                /\ job' = job
           ELSE /\ \E f \in downloaded_files :
                       job' = [job EXCEPT !.actual_temp_filepath = f]
                /\ pc' = "rename"
                /\ exc' = exc
    /\ UNCHANGED <<req, temp_dir_path, dirs, tmpFiles, response, engineLog,
                   cleanupRegistered, rmFailed, bodySent, info_dict>>

\* lines 362-366: os.rename moves the file inside the directory
RenameFile ==
    /\ UNCHANGED <<helperVars, jobVars>>
    /\ pc = "rename"
    /\ tmpFiles' = (tmpFiles \ {job.actual_temp_filepath}) \cup {job.final_filename}
    /\ pc' = "send"
    /\ UNCHANGED <<req, temp_dir_path, dirs, job, exc, response, engineLog,
                   cleanupRegistered, rmFailed, bodySent, info_dict>>

\* lines 367-369: os.rename raises OSError
RenameFileFails ==
    /\ UNCHANGED <<helperVars, jobVars>>
    /\ pc = "rename"
    /\ exc' = Abort(500, Msg("Server error: Failed to prepare file after download: ", <<>>))
    /\ pc' = "except"
    /\ UNCHANGED <<req, temp_dir_path, dirs, tmpFiles, job, response, engineLog,
                   cleanupRegistered, rmFailed, bodySent, info_dict>>

\* lines 372-404: the response is built, the cleanup is registered with
\* after_this_request and the handler returns
SendFile ==
    /\ UNCHANGED <<helperVars, jobVars>>
    /\ pc = "send"
    /\ IF job.final_filename \notin tmpFiles
       THEN /\ exc' = Abort(500, Msg("Server error: Final file path lost before sending.",
                                     <<>>))
            /\ pc' = "except"
            /\ UNCHANGED <<response, cleanupRegistered>>
       ELSE /\ response' = [status |-> 200, kind |-> "file", error |-> NoMsg,
                            formats |-> [kind |-> "none"], file |-> job.final_filename]
            /\ cleanupRegistered' = TRUE
            /\ pc' = "after_request"
            /\ exc' = exc
    /\ UNCHANGED <<req, temp_dir_path, dirs, tmpFiles, job, engineLog, rmFailed, bodySent,
                   info_dict>>

\* line 379: send_file raises
SendFileFails ==
    /\ UNCHANGED <<helperVars, jobVars>>
    /\ pc = "send"
    /\ exc' = OtherError
    /\ pc' = "except"
    /\ UNCHANGED <<req, temp_dir_path, dirs, tmpFiles, job, response, engineLog,
                   cleanupRegistered, rmFailed, bodySent, info_dict>>

\* a slip: the directory is left in place
RemoveTreeSkipped(path, fails) == UNCHANGED <<dirs, tmpFiles, rmFailed>>

\* shutil.rmtree(path) inside try/except: the directory goes, or the call
\* raises, the error is logged and the directory stays
RemoveTree(path, fails) ==
    IF path # NoDir /\ path \in dirs
    THEN IF fails
         THEN /\ rmFailed' = TRUE
              /\ UNCHANGED <<dirs, tmpFiles>>
         ELSE /\ dirs' = dirs \ {path}
              /\ tmpFiles' = {}
              /\ rmFailed' = rmFailed
    ELSE UNCHANGED <<dirs, tmpFiles, rmFailed>>

\* a slip: there is no catch-all branch, an exception that is neither a
\* DownloadError nor an HTTPException leaves the handler without a response
ErrorResponseNoCatchAll(e) ==
    IF e.type = "DownloadError"
    THEN JsonError(500, Msg("Download preparation failed: ", e.description.raw))
    ELSE IF e.type = "HTTPException"
    THEN JsonError(e.code, e.description)
    ELSE NoResponse

\* lines 417-423: the error response for the exception caught in line 406
ErrorResponse(e) ==
    IF e.type = "DownloadError"
    THEN JsonError(500, Msg("Download preparation failed: ", e.description.raw))
    ELSE IF e.type = "HTTPException"
    THEN JsonError(e.code, e.description)
    ELSE JsonError(500, Msg("Server download failed unexpectedly.", <<>>))

\* a slip: the failure of shutil.rmtree is not caught and becomes the answer
HandleExceptionSurfacing(fails) ==
    /\ UNCHANGED <<helperVars, jobVars>>
    /\ pc = "except"
    /\ RemoveTree(temp_dir_path, fails)
    /\ response' = IF fails /\ temp_dir_path # NoDir /\ temp_dir_path \in dirs
                   THEN JsonError(500, Msg("Internal Server Error", <<>>))
                   ELSE ErrorResponse(exc)
    /\ pc' = "after_request"
    /\ UNCHANGED <<req, temp_dir_path, job, exc, engineLog, cleanupRegistered, bodySent,
                   info_dict>>

\* lines 406-423: the except block removes the directory and answers in JSON
HandleException(fails) ==
    /\ UNCHANGED <<helperVars, jobVars>>
    /\ pc = "except"
    /\ RemoveTree(temp_dir_path, fails)
    /\ response' = ErrorResponse(exc)
    /\ pc' = "after_request"
    /\ UNCHANGED <<req, temp_dir_path, job, exc, engineLog, cleanupRegistered, bodySent, info_dict>>

\* lines 388-402: once the handler has returned, the framework calls the
\* functions registered with after_this_request, passing them the response
\* object that is still to be sent
RunAfterRequest(fails) ==
    /\ UNCHANGED <<helperVars, jobVars>>
    /\ pc = "after_request"
    /\ IF cleanupRegistered
       THEN RemoveTree(temp_dir_path, fails)
       ELSE UNCHANGED <<dirs, tmpFiles, rmFailed>>
    /\ pc' = "transmit"
    /\ UNCHANGED <<req, temp_dir_path, job, exc, response, engineLog, cleanupRegistered,
                   bodySent, info_dict>>

\* the response returned in line 404 (or an error response) goes to the client
TransmitBody ==
    /\ UNCHANGED <<helperVars, jobVars>>
    /\ pc = "transmit"
    /\ bodySent' = TRUE
    /\ pc' = "done"
    /\ UNCHANGED <<req, temp_dir_path, dirs, tmpFiles, job, exc, response, engineLog,
                   cleanupRegistered, rmFailed, info_dict>>

\* the request is over: its context is dropped; directories that were not
\* removed stay on the filesystem
EndRequest ==
    /\ UNCHANGED <<helperVars, jobVars>>
    /\ pc = "done"
    /\ pc' = "idle"
    /\ req' = NoRequest
    /\ temp_dir_path' = NoDir
    /\ tmpFiles' = {}
    /\ job' = NoJob
    /\ exc' = NoExc
    /\ response' = NoResponse
    /\ engineLog' = <<>>
    /\ cleanupRegistered' = FALSE
    /\ rmFailed' = FALSE
    /\ bodySent' = FALSE
    /\ info_dict' = NoInfo
    /\ UNCHANGED dirs

(***************************************************************************)
(* download_video served for several requests at once (a threaded server): *)
(* the steps of each request that use the filesystem, interleaved in any   *)
(* order.  A file carries the request whose engine call wrote it.          *)
(***************************************************************************)
Jobs == 1..MaxJobs

\* the names tempfile.mkdtemp can give: one more than there are requests
JobDirNames == 1..(MaxJobs + 1)

\* no filesystem step was made yet
NoOp == [job |-> 0, step |-> "", files |-> {}]

\* the file as request j's engine call wrote it
WrittenBy(j, f) == [base |-> f.base, ext |-> f.ext, writer |-> j]

\* line 317: the final name; every request asks for the same one
FinalName == [base |-> <<"v", "i", "d", "e", "o">>, ext |-> "mkv"]

\* the files of directory d, none when it does not exist
FilesIn(d) == IF d \in DOMAIN tree THEN tree[d] ELSE {}

\* a slip: the directory is made at a given name whether or not it exists
AnyDirs == JobDirNames

\* line 289: tempfile.mkdtemp creates a directory at a name that did not exist
FreshDirs == JobDirNames \ DOMAIN tree

\* the files the engine may leave in the directory of a request
JobOutputs == {{}, {[base |-> DownloadTemp, ext |-> "mkv"]}}

\* lines 275-290: a request arrives and its directory is created; with no
\* name left mkdtemp raises and the except block finds no directory to remove
JobMakeTempDir(j) ==
    /\ UNCHANGED <<helperVars, serviceVars>>
    /\ jobPc[j] = "idle"
    /\ IF FreshDirs = {}
       THEN UNCHANGED <<jobPc, jobDir, tree>>
       ELSE \E d \in FreshDirs :
                /\ jobDir' = [jobDir EXCEPT ![j] = d]
                /\ tree' = [x \in DOMAIN tree \cup {d} |->
                                IF x \in DOMAIN tree THEN tree[x] ELSE {}]
                /\ jobPc' = [jobPc EXCEPT ![j] = "download"]
    /\ lastOp' = NoOp
    /\ UNCHANGED jobFile

\* lines 292-349: the format is resolved and the engine downloads into
\* <temp_dir_path>/download_temp.<ext>; it returns (ok) or raises
JobDownload(j, written, ok) ==
    /\ UNCHANGED <<helperVars, serviceVars>>
    /\ jobPc[j] = "download"
    /\ tree' = IF jobDir[j] \in DOMAIN tree
               THEN [tree EXCEPT ![jobDir[j]] = @ \cup {WrittenBy(j, f) : f \in written}]
               ELSE tree
    /\ jobPc' = [jobPc EXCEPT ![j] = IF ok THEN "locate" ELSE "cleanup"]
    /\ lastOp' = NoOp
    /\ UNCHANGED <<jobDir, jobFile>>

\* lines 351-359: glob <temp_dir_path>/download_temp.* and take a match
JobLocate(j) ==
    /\ UNCHANGED <<helperVars, serviceVars>>
    /\ jobPc[j] = "locate"
    /\ LET downloaded_files == {f \in FilesIn(jobDir[j]) : f.base = DownloadTemp}
       IN  /\ lastOp' = [job |-> j, step |-> "locate", files |-> downloaded_files]
           /\ IF downloaded_files = {}
              THEN /\ jobPc' = [jobPc EXCEPT ![j] = "cleanup"]
                   /\ jobFile' = jobFile
              ELSE /\ \E f \in downloaded_files : jobFile' = [jobFile EXCEPT ![j] = f]
                   /\ jobPc' = [jobPc EXCEPT ![j] = "rename"]
    /\ UNCHANGED <<jobDir, tree>>

\* lines 361-369: os.rename to the final name inside the directory (a file of
\* that name is replaced); OSError when the file is not there
JobRename(j) ==
    /\ UNCHANGED <<helperVars, serviceVars>>
    /\ jobPc[j] = "rename"
    /\ LET replaced == {f \in FilesIn(jobDir[j]) :
                           [base |-> f.base, ext |-> f.ext] = FinalName}
       IN  IF jobFile[j] \in FilesIn(jobDir[j])
           THEN /\ tree' = [tree EXCEPT ![jobDir[j]] =
                                (@ \ ({jobFile[j]} \cup replaced))
                                \cup {WrittenBy(jobFile[j].writer, FinalName)}]
                /\ lastOp' = [job |-> j, step |-> "rename",
                              files |-> {jobFile[j]} \cup replaced]
           ELSE /\ tree' = tree
                /\ lastOp' = [job |-> j, step |-> "rename", files |-> {}]
    /\ jobPc' = [jobPc EXCEPT ![j] = "cleanup"]
    /\ UNCHANGED <<jobDir, jobFile>>

\* lines 388-402 and 409-415: shutil.rmtree(temp_dir_path), after the
\* response was built or in the except block; a failure is logged and the
\* directory stays.  The request is over.
JobCleanup(j, fails) ==
    /\ UNCHANGED <<helperVars, serviceVars>>
    /\ jobPc[j] = "cleanup"
    /\ IF jobDir[j] \in DOMAIN tree /\ ~fails
       THEN /\ tree' = [x \in DOMAIN tree \ {jobDir[j]} |-> tree[x]]
            /\ lastOp' = [job |-> j, step |-> "cleanup", files |-> tree[jobDir[j]]]
       ELSE /\ tree' = tree
            /\ lastOp' = [job |-> j, step |-> "cleanup", files |-> {}]
    /\ jobPc' = [jobPc EXCEPT ![j] = "idle"]
    /\ jobDir' = [jobDir EXCEPT ![j] = NoDir]
    /\ jobFile' = [jobFile EXCEPT ![j] = NoFile]

(***************************************************************************)
(* Requests and engine behaviours the service is run with.                 *)
(***************************************************************************)
RequestUrls ==
    {MissingUrl,
     Url(TRUE, <<"youtube", ".", "com">>),
     Url(FALSE, <<"www", ".", "youtube", ".", "com">>),
     Url(TRUE, <<"music", ".", "YouTube", ".", "com">>),
     Url(TRUE, <<"vimeo", ".", "com">>),
     Url(TRUE, <<"vimeo", ".", "com", ":", ".", "youtube", ".", "com">>)}

RequestFormatIds == {"", "18", "137", "140", "x"}

RequestFilenames ==
    {<<"v", "i", "d", "e", "o">>, <<"a", " ", ":", "a", ".", "m", "p", "4">>}

EngineFormats ==
    {[Descriptor(Str("u"), Str("137"), Absent, Str("vp09"), Str("none"),
                 Str("1920x1080"), Num(1080), Num(30), Absent) EXCEPT !.ext = Str("webm")],
     [Descriptor(Str("u"), Str("140"), Absent, Str("none"), Str("mp4a"),
                 Str("audio only"), Absent, Absent, Num(128)) EXCEPT !.ext = Str("m4a")],
     [Descriptor(Str("u"), Str("x"), Absent, Absent, Str("none"),
                 Absent, Absent, Absent, Absent) EXCEPT !.ext = Str("mp4")],
     Descriptor(Str("u"), Str("18"), Absent, Str("avc1"), Str("mp4a"),
                Str("640x360"), Num(360), Num(30), Absent),
     Descriptor(Str("u"), Str("22"), Absent, Str("avc1"), Str("mp4a"),
                Str("1280x720"), Num(720), Str("fast"), Absent)}

ExtractOutcomes ==
    {[kind |-> "DownloadError", text |-> t, info |-> NoInfo] : t \in EngineTexts}
    \cup {[kind |-> k, text |-> NoText, info |-> NoInfo] : k \in {"Exception", "None"}}
    \cup {[kind |-> "info", text |-> NoText, info |-> [formats |-> l, is_live |-> v]] :
             l \in SeqsUpTo(EngineFormats, MaxEngineFormats), v \in {Absent, True}}

\* what ydl_info.extract_info does for download_video, which does not read
\* is_live of the metadata
ResolveOutcomes == {o \in ExtractOutcomes : o.info.is_live = Absent}

NoResult == [kind |-> "none"]

\* the helper functions are not being run
HelpersIdle ==
    /\ sanIn = <<>>
    /\ sanOuts = <<>>
    /\ fmtIn = <<>>
    /\ fmtOut = NoResult

\* the service has not received a request
ServiceIdle ==
    /\ pc = "idle"
    /\ req = NoRequest
    /\ temp_dir_path = NoDir
    /\ dirs = {}
    /\ tmpFiles = {}
    /\ job = NoJob
    /\ exc = NoExc
    /\ response = NoResponse
    /\ engineLog = <<>>
    /\ cleanupRegistered = FALSE
    /\ rmFailed = FALSE
    /\ bodySent = FALSE
    /\ info_dict = NoInfo

\* no concurrent download is being served
JobsIdle ==
    /\ jobPc = [j \in Jobs |-> "idle"]
    /\ jobDir = [j \in Jobs |-> NoDir]
    /\ jobFile = [j \in Jobs |-> NoFile]
    /\ tree = <<>>
    /\ lastOp = NoOp

Init == HelpersIdle /\ ServiceIdle /\ JobsIdle

Next ==
    \/ \E url \in RequestUrls : GetFormatsRejected(url)
    \/ \E url \in RequestUrls, outcome \in ExtractOutcomes : GetFormatsAccepted(url, outcome)
    \/ \E url \in RequestUrls, format_id \in RequestFormatIds,
          filename \in RequestFilenames : DownloadStart(url, format_id, filename)
    \/ MakeTempDir
    \/ MakeTempDirFails
    \/ \E outcome \in ResolveOutcomes : ResolveFormat(outcome)
    \/ SelectFormat
    \/ \E written \in EngineOutputs : RunDownload(written)
    \/ \E text \in EngineTexts, written \in EngineOutputs : RunDownloadFails(text, written)
    \/ LocateFile
    \/ RenameFile
    \/ RenameFileFails
    \/ SendFile
    \/ SendFileFails
    \/ \E fails \in BOOLEAN : HandleException(fails)
    \/ \E fails \in BOOLEAN : RunAfterRequest(fails)
    \/ TransmitBody
    \/ EndRequest

Spec == Init /\ [][Next]_vars

JobsNext ==
    \/ \E j \in Jobs : JobMakeTempDir(j)
    \/ \E j \in Jobs, written \in JobOutputs, ok \in BOOLEAN : JobDownload(j, written, ok)
    \/ \E j \in Jobs : JobLocate(j)
    \/ \E j \in Jobs : JobRename(j)
    \/ \E j \in Jobs, fails \in BOOLEAN : JobCleanup(j, fails)

SpecJobs == Init /\ [][JobsNext]_vars

(***************************************************************************)
(* Inputs of extract_formats: one descriptor drawn from SubjectFormats at  *)
(* any place among descriptors drawn from ContextFormats.                  *)
(***************************************************************************)
PlainFormats ==
    {Descriptor(Str("u"), Str("18"), Absent, v, a, r, h, Absent, b) :
        v \in {Absent, Str("none"), Str("avc1")},
        a \in {Absent, Str("none"), Str("opus")},
        r \in {Absent, Str("640x360")},
        h \in {Absent, Num(0), Num(360)},
        b \in {Absent, Num(128)}}

SubjectFormats ==
    PlainFormats
    \cup {[d EXCEPT !.url = Absent] : d \in PlainFormats}
    \cup {[d EXCEPT !.format_id = Absent] : d \in PlainFormats}
    \cup {[d EXCEPT !.is_live = True] : d \in PlainFormats}

ContextFormats ==
    {Descriptor(Str("u"), Str("137"), Absent, Str("vp09"), Str("none"),
                Str("1920x1080"), Num(1080), Num(30), Absent),
     Descriptor(Str("u"), Str("140"), Absent, Str("none"), Str("mp4a"),
                Str("audio only"), Absent, Absent, Num(256)),
     Descriptor(Str("u"), Str("sb0"), Absent, Str("none"), Str("none"),
                Absent, Absent, Absent, Absent)}

InsertAt(s, i, x) ==
    [j \in 1..(Len(s) + 1) |-> IF j < i THEN s[j] ELSE IF j = i THEN x ELSE s[j - 1]]

FormatInputs ==
    {<<>>} \cup
    UNION {{InsertAt(ctx, i, d) : i \in 1..(Len(ctx) + 1), d \in SubjectFormats} :
              ctx \in SeqsUpTo(ContextFormats, MaxFormats - 1)}

FormatsInit ==
    /\ fmtIn \in FormatInputs
    /\ fmtOut = NoResult
    /\ sanIn = <<>>
    /\ sanOuts = <<>>
    /\ ServiceIdle
    /\ JobsIdle

\* one call of extract_formats
ExtractFormats ==
    /\ fmtOut = NoResult
    /\ fmtOut' = extract_formats(fmtIn)
    /\ UNCHANGED <<fmtIn, sanIn, sanOuts, serviceVars, jobVars>>

FormatsNext == ExtractFormats

SpecFormats == FormatsInit /\ [][FormatsNext]_vars

(***************************************************************************)
(* Inputs of extract_formats for the ranking: audio-only descriptors of    *)
(* equal, different, missing and non-numeric bitrates, video descriptors   *)
(* of equal and different heights and frame rates, heights that are not    *)
(* numbers, and a frame rate that is not a number.                         *)
(***************************************************************************)
Audio(id, abr) ==
    Descriptor(Str("u"), Str(id), Absent, Str("none"), Str("opus"), Absent, Absent,
               Absent, abr)

Video(id, height, fps) ==
    Descriptor(Str("u"), Str(id), Absent, Str("avc1"), Str("none"), Str("WxH"), height,
               fps, Absent)

RankedFormats ==
    {Audio("a1", Num(128)), Audio("a2", Num(128)), Audio("a3", Num(64)),
     Audio("a4", Absent), Audio("a5", Str("high")), Audio("a6", Num(0)),
     Video("v1", Num(720), Num(30)), Video("v2", Num(720), Num(60)),
     Video("v3", Num(720), Absent), Video("v4", Num(360), Num(60)),
     Video("v5", Str("tall"), Num(30)), Video("v6", Digits(360), Absent),
     Video("v7", Num(360), Str("fast"))}

RankedInputs == SeqsUpTo(RankedFormats, MaxRanked)

RankedInit ==
    /\ fmtIn \in RankedInputs
    /\ fmtOut = NoResult
    /\ sanIn = <<>>
    /\ sanOuts = <<>>
    /\ ServiceIdle
    /\ JobsIdle

SpecRanked == RankedInit /\ [][FormatsNext]_vars

SanitizeInit ==
    /\ sanIn \in SanitizeInputs
    /\ sanOuts = <<>>
    /\ fmtIn = <<>>
    /\ fmtOut = NoResult
    /\ ServiceIdle
    /\ JobsIdle

\* one call of sanitize_filename, on the input first and then on its own result
SanitizeCall ==
    /\ Len(sanOuts) < 2
    /\ sanOuts' = Append(sanOuts,
                         sanitize_filename(IF sanOuts = <<>> THEN sanIn
                                           ELSE sanOuts[Len(sanOuts)]))
    /\ UNCHANGED <<sanIn, fmtIn, fmtOut, serviceVars, jobVars>>

SanitizeNext == SanitizeCall

SpecSanitize == SanitizeInit /\ [][SanitizeNext]_vars

(***************************************************************************)
(* Properties of the handlers.                                             *)
(***************************************************************************)
\* the request has finished: the handler has returned and the functions
\* registered with after_this_request have run
Finished == pc \in {"transmit", "done"}

\* C1: once a /api/download request that created a temporary directory has
\* finished, the directory does not exist, on every path of the handler,
\* provided shutil.rmtree did not fail.
C1_TempDirRemoved ==
    (Finished /\ temp_dir_path # NoDir /\ ~rmFailed) => temp_dir_path \notin dirs

C1_Witness ==
    /\ pc = "done"
    /\ req.endpoint = "download"
    /\ temp_dir_path # NoDir
    /\ ~rmFailed
    /\ Len(engineLog) = 2
    /\ engineLog[2].call = "download"
    /\ engineLog[2].raised
    /\ response.status = 500
    /\ temp_dir_path \notin dirs

\* C2: on the success path of /api/download the temporary directory, and the
\* file served from it, is removed only after the response body has been
\* transmitted: whenever it is gone, the body has been sent.
C2_RemovedOnlyAfterSent ==
    (response.kind = "file" /\ temp_dir_path \notin dirs) => bodySent

\* C3: when the engine raises during the download step the response status is
\* 500, except that it is 400 when the failure text says the platform asked
\* for sign-in / bot verification.
C3_DownloadFailureStatus ==
    (pc = "done" /\ req.endpoint = "download") =>
        \A i \in 1..Len(engineLog) :
            (engineLog[i].call = "download" /\ engineLog[i].raised) =>
                response.status =
                    IF "Sign in to confirm you're not a bot" \in engineLog[i].text.has
                    THEN 400 ELSE 500

\* the host of a netloc, as urlparse(...).hostname gives it: what precedes the
\* port separator, in lower case
HostOf(netloc) ==
    LET colons == {i \in 1..Len(netloc) : netloc[i] = ":"}
    IN  IF colons = {} THEN Lower(netloc)
        ELSE Lower(SubSeq(netloc, 1, (CHOOSE i \in colons : \A j \in colons : i <= j) - 1))

\* the host equals an allow-listed host name or is a subdomain of one
HostAllowed(url) ==
    \E supported \in SUPPORTED_DOMAINS :
        \/ HostOf(url.netloc) = supported
        \/ EndsWith(HostOf(url.netloc), <<".">> \o supported)

\* C4: a request to /api/get-formats or /api/download whose host is neither an
\* allow-listed host name nor a subdomain of one gets an error response, and
\* no engine call is made for it.
C4_UnsupportedHostRejected ==
    (req.endpoint \in {"get-formats", "download"} /\ req.url.given
        /\ ~HostAllowed(req.url)) =>
        /\ engineLog = <<>>
        /\ Finished => response.status >= 400

\* C6: the engine download call gets the selector "<id>+bestaudio/bestaudio",
\* the merge container as target extension and as merge_output_format exactly
\* when the resolved descriptor has a video codec that is present and not
\* "none" and the audio codec "none"; otherwise it gets the bare format id,
\* the descriptor's own extension and no merge_output_format.
C6_MergeIffVideoOnly ==
    \A i \in 1..Len(engineLog) :
        engineLog[i].call = "download" =>
            IF /\ Get(job.selected, "vcodec") \notin {None, Str("none")}
               /\ Get(job.selected, "acodec") = Str("none")
            THEN /\ engineLog[i].opts.format =
                        [id |-> req.format_id, plus |-> "+bestaudio/bestaudio"]
                 /\ job.actual_ext = Str("mkv")
                 /\ engineLog[i].opts.merge_output_format = Str("mkv")
            ELSE /\ engineLog[i].opts.format = [id |-> req.format_id, plus |-> ""]
                 /\ job.actual_ext = GetOr(job.selected, "ext", Str("mp4"))
                 /\ engineLog[i].opts.merge_output_format = None

\* C5: sanitize_filename is idempotent: a second call on the result of a
\* first call returns that result unchanged, for every input.
C5_Idempotent == Len(sanOuts) = 2 => sanOuts[2] = sanOuts[1]

(***************************************************************************)
(* Properties of extract_formats.                                          *)
(***************************************************************************)
Returned == fmtOut # NoResult

\* the result of the same call without the descriptor at index i
Without(i) == extract_formats(RemoveAt(fmtIn, i))

\* C7: a raw descriptor that has no url, has no format id or is marked live
\* contributes nothing to the result: the video list, the audio list and the
\* best-audio summary are those of the input without that descriptor.
C7_SkippedContributeNothing ==
    Returned =>
        \A i \in 1..Len(fmtIn) :
            (\/ Get(fmtIn[i], "url") \in {None, Str("")}
             \/ Get(fmtIn[i], "format_id") \in {None, Str("")}
             \/ Get(fmtIn[i], "is_live") = True)
            => fmtOut = Without(i)

C7_Witness ==
    /\ Returned
    /\ Len(fmtIn) = 2
    /\ Get(fmtIn[1], "is_live") = True
    /\ Get(fmtIn[1], "vcodec") = Str("none")
    /\ Get(fmtIn[1], "acodec") = Str("opus")
    /\ Len(fmtOut.audio) = 1
    /\ fmtOut.audio[1].id = Str("140")

\* a descriptor that line 74 lets through, as the claims state it
Usable(f) ==
    /\ Get(f, "url") \notin {None, Str("")}
    /\ Get(f, "format_id") \notin {None, Str("")}
    /\ Get(f, "is_live") \notin {True}

\* the descriptor carries a resolution (a non-empty text) or a height (a
\* number other than 0)
HasSize(f) ==
    \/ Get(f, "resolution") \notin {None, Str("")}
    \/ Get(f, "height") \notin {None, Num(0)}

\* C8: a usable descriptor whose video codec is not "none" and which has a
\* resolution or a height yields exactly one entry of the video list, with its
\* format id, and no entry of the audio list.
C8_VideoClassified ==
    Returned =>
        \A i \in 1..Len(fmtIn) :
            (/\ Usable(fmtIn[i])
             /\ Get(fmtIn[i], "vcodec") # Str("none")
             /\ HasSize(fmtIn[i]))
            => /\ fmtOut.audio = Without(i).audio
               /\ \E p \in 1..Len(fmtOut.video) :
                      /\ fmtOut.video[p].id = fmtIn[i].format_id
                      /\ RemoveAt(fmtOut.video, p) = Without(i).video

C8_Witness ==
    /\ Returned
    /\ Len(fmtIn) = 2
    /\ Get(fmtIn[2], "vcodec") = Str("avc1")
    /\ Get(fmtIn[2], "resolution") = None
    /\ Get(fmtIn[2], "height") = Num(360)
    /\ Usable(fmtIn[2])
    /\ Len(fmtOut.video) = 2
    /\ fmtOut.video[2].id = Str("18")

\* C9: a usable descriptor whose audio codec is not "none" and whose video
\* codec is "none" yields exactly one entry of the audio list, with its format
\* id, and no entry of the video list, also when it carries a resolution or a
\* height.
C9_AudioClassified ==
    Returned =>
        \A i \in 1..Len(fmtIn) :
            (/\ Usable(fmtIn[i])
             /\ Get(fmtIn[i], "acodec") # Str("none")
             /\ Get(fmtIn[i], "vcodec") = Str("none"))
            => /\ fmtOut.video = Without(i).video
               /\ \E p \in 1..Len(fmtOut.audio) :
                      /\ fmtOut.audio[p].id = fmtIn[i].format_id
                      /\ RemoveAt(fmtOut.audio, p) = Without(i).audio

C9_Witness ==
    /\ Returned
    /\ Len(fmtIn) = 2
    /\ Get(fmtIn[1], "acodec") = Str("opus")
    /\ Get(fmtIn[1], "vcodec") = Str("none")
    /\ Get(fmtIn[1], "resolution") = Str("640x360")
    /\ Get(fmtIn[1], "height") = Num(360)
    /\ Usable(fmtIn[1])
    /\ Len(fmtOut.audio) = 2
    /\ Len(fmtOut.video) = 0

\* C10: the two lists are disjoint; every entry of the video list comes from a
\* usable descriptor whose video codec is present and not "none" and which has
\* a resolution or a height; every entry of the audio list comes from a usable
\* descriptor whose audio codec is present and not "none" and whose video codec
\* is "none".
C10_ListsOnlyHoldClassified ==
    Returned =>
        /\ \A p \in 1..Len(fmtOut.video) :
               \E i \in 1..Len(fmtIn) :
                   /\ Usable(fmtIn[i])
                   /\ Get(fmtIn[i], "vcodec") \notin {None, Str("none")}
                   /\ HasSize(fmtIn[i])
                   /\ fmtOut.video[p] = VideoEntry(fmtIn[i])
        /\ \A p \in 1..Len(fmtOut.audio) :
               \E i \in 1..Len(fmtIn) :
                   /\ Usable(fmtIn[i])
                   /\ Get(fmtIn[i], "acodec") \notin {None, Str("none")}
                   /\ Get(fmtIn[i], "vcodec") = Str("none")
                   /\ fmtOut.audio[p] = AudioEntry(fmtIn[i])
        /\ Len(fmtOut.video) + Len(fmtOut.audio)
               <= Cardinality({i \in 1..Len(fmtIn) : Usable(fmtIn[i])})

(***************************************************************************)
(* Properties of the ranking done by extract_formats.                      *)
(***************************************************************************)
\* extract_formats returned its triple
ReturnedFormats == Returned /\ fmtOut.kind = "formats"

\* an audio-only descriptor: usable, with an audio codec and no video codec
AudioOnly(f) ==
    /\ Usable(f)
    /\ Get(f, "vcodec") = Str("none")
    /\ Get(f, "acodec") # Str("none")

AudioOnlyAt == {i \in 1..Len(fmtIn) : AudioOnly(fmtIn[i])}

NumericAbrAt == {i \in AudioOnlyAt : Get(fmtIn[i], "abr").t = "num"}

\* the place of the descriptor the summary has to refer to
BestAudioAt ==
    IF NumericAbrAt # {}
    THEN CHOOSE i \in NumericAbrAt :
             \A j \in NumericAbrAt :
                 \/ Get(fmtIn[j], "abr").n < Get(fmtIn[i], "abr").n
                 \/ Get(fmtIn[j], "abr").n = Get(fmtIn[i], "abr").n /\ i <= j
    ELSE CHOOSE i \in AudioOnlyAt : \A j \in AudioOnlyAt : i <= j

\* C11: the best-audio summary refers to the audio-only descriptor of the
\* highest numeric bitrate, the earliest one among those of that bitrate; when
\* no audio-only descriptor has a numeric bitrate, to the first audio-only
\* descriptor.
C11_BestAudioHighestBitrate ==
    (ReturnedFormats /\ AudioOnlyAt # {}) =>
        /\ fmtOut.best # None
        /\ fmtOut.best.id = fmtIn[BestAudioAt]["format_id"]

\* two descriptors share the highest bitrate, after one without a bitrate
C11_Witness ==
    /\ ReturnedFormats
    /\ fmtIn = <<Audio("a4", Absent), Audio("a2", Num(128)), Audio("a1", Num(128))>>
    /\ fmtOut.best # None
    /\ fmtOut.best.id = Str("a2")

\* C12: the best-audio summary is absent exactly when the returned audio list
\* is empty.
C12_SummaryAbsentIffNoAudio ==
    ReturnedFormats => (fmtOut.best = None <=> fmtOut.audio = <<>>)

\* the only audio-only descriptor has the bitrate 0
C12_Witness ==
    /\ ReturnedFormats
    /\ fmtIn = <<Video("v1", Num(720), Num(30)), Audio("a6", Num(0))>>
    /\ Len(fmtOut.audio) = 1
    /\ fmtOut.best # None

\* C13: in the returned audio list the entries with a numeric bitrate come
\* before the entries whose bitrate is missing or not a number, and the
\* numeric bitrates do not increase.
C13_AudioOrdered ==
    ReturnedFormats =>
        \A p, q \in 1..Len(fmtOut.audio) :
            (p < q /\ fmtOut.audio[q].abr.t = "num") =>
                /\ fmtOut.audio[p].abr.t = "num"
                /\ fmtOut.audio[p].abr.n >= fmtOut.audio[q].abr.n

\* bitrates missing, not a number, 0 and 128 in one list
C13_Witness ==
    /\ ReturnedFormats
    /\ fmtIn = <<Audio("a4", Absent), Audio("a6", Num(0)), Audio("a1", Num(128))>>
    /\ fmtOut.audio[1].id = Str("a1")
    /\ fmtOut.audio[2].id = Str("a6")
    /\ fmtOut.audio[3].id = Str("a4")

\* the height the ranking uses for a descriptor: its number, 0 when it has none
NumericHeight(f) ==
    LET h == Get(f, "height")
    IN  IF h.t = "num" \/ (h.t = "str" /\ h.s = "digits") THEN h.n ELSE 0

\* the frame rate the ranking uses: 0 when missing
NumericFps(e) == IF e.fps.t = "num" THEN e.fps.n ELSE 0

\* a video descriptor: usable, with a video codec and a resolution or height
VideoAt == {i \in 1..Len(fmtIn) :
               /\ Usable(fmtIn[i])
               /\ Get(fmtIn[i], "vcodec") # Str("none")
               /\ HasSize(fmtIn[i])}

\* C14: the returned video list is ordered by numeric height descending and,
\* among equal heights, by frames per second descending with a missing value
\* as 0; a height that is not a number counts as 0 and never makes the call
\* raise.
C14_VideoOrdered ==
    /\ ReturnedFormats =>
           /\ \A p, q \in 1..Len(fmtOut.video) :
                  p < q =>
                      \/ fmtOut.video[p].height > fmtOut.video[q].height
                      \/ /\ fmtOut.video[p].height = fmtOut.video[q].height
                         /\ NumericFps(fmtOut.video[p]) >= NumericFps(fmtOut.video[q])
           /\ \A i \in VideoAt :
                  \E p \in 1..Len(fmtOut.video) :
                      /\ fmtOut.video[p].id = fmtIn[i]["format_id"]
                      /\ fmtOut.video[p].height = NumericHeight(fmtIn[i])
    /\ (Returned /\ \A i \in VideoAt : Get(fmtIn[i], "fps").t \in {"None", "num"})
           => fmtOut.kind = "formats"

\* a height that is not a number, and two frame rates at one height
C14_Witness ==
    /\ ReturnedFormats
    /\ fmtIn = <<Video("v5", Str("tall"), Num(30)), Video("v3", Num(720), Absent),
                 Video("v2", Num(720), Num(60))>>
    /\ fmtOut.video[1].id = Str("v2")
    /\ fmtOut.video[2].id = Str("v3")
    /\ fmtOut.video[3].id = Str("v5")
    /\ fmtOut.video[3].height = 0

(***************************************************************************)
(* Properties of the error handling of the handlers.                       *)
(***************************************************************************)
\* the handler has returned
HandlerReturned == pc \in {"after_request", "transmit", "done"}

\* the engine raised in some call made for the request
EngineRaised == \E i \in 1..Len(engineLog) : engineLog[i].raised

\* C15: every path of the two handlers ends by returning a JSON or binary
\* response: an exception raised by the engine, by a filesystem operation or
\* by the cleanup does not leave the handler, it is answered by an error
\* response.
C15_AlwaysResponds ==
    /\ HandlerReturned =>
           /\ response.kind \in {"json", "file"}
           /\ response.status \in {200, 400, 500}
    /\ (HandlerReturned /\ (EngineRaised \/ exc # NoExc)) =>
           /\ response.kind = "json"
           /\ response.status \in {400, 500}

\* mkdtemp or send_file raised, then shutil.rmtree raised in the except block
C15_Witness ==
    /\ Finished
    /\ exc = OtherError
    /\ rmFailed
    /\ response.kind = "json"
    /\ response.status = 500

\* the user-facing messages of lines 252-259 and 265, and those download_video
\* has for an engine error
FixedMessages ==
    {"Invalid or unsupported URL.", "This video is unavailable.",
     "Private videos cannot be accessed.",
     "Age-restricted video. Cannot download automatically.",
     "Livestreams/Premieres cannot be downloaded until finished.",
     "Rate limited by YouTube. Please wait and try again later.",
     "YouTube requires bot verification. Cannot download automatically.",
     "Could not fetch video data (may be region locked, deleted, etc).",
     "An unexpected server error occurred while fetching formats.",
     "Server download failed unexpectedly.",
     "Download failed: FFmpeg utility may be missing or not found on the server. It's required for merging audio/video."}

\* C16: on both endpoints the error message that answers an engine-raised
\* error is one of a fixed set of user-facing messages, and the raw text of the
\* engine error is not part of the response body.
C16_NoRawEngineText ==
    (HandlerReturned /\ EngineRaised) =>
        /\ response.error.msg \in FixedMessages
        /\ response.error.raw = <<>>

\* C17: in /api/download, a DownloadError the engine raises while the format
\* is resolved, for a private, unavailable or rate-limited video, is answered
\* with status 400, as /api/get-formats answers it.
C17_ResolveErrorIs400 ==
    (/\ HandlerReturned
     /\ req.endpoint = "download"
     /\ Len(engineLog) = 1
     /\ engineLog[1].raised
     /\ exc.type = "DownloadError"
     /\ engineLog[1].text.has \cap {"Private video", "Video unavailable", "429"} # {})
        => response.status = 400

\* the response of a download request that created its directory, as the
\* handler builds it when shutil.rmtree does not fail: the file of line 379,
\* or the error response of lines 417-423 for the exception caught
ResponseExpected ==
    IF exc = NoExc
    THEN [status |-> 200, kind |-> "file", error |-> NoMsg,
          formats |-> [kind |-> "none"], file |-> job.final_filename]
    ELSE IF exc.type = "DownloadError"
    THEN JsonError(500, Msg("Download preparation failed: ", exc.description.raw))
    ELSE IF exc.type = "HTTPException"
    THEN JsonError(exc.code, exc.description)
    ELSE JsonError(500, Msg("Server download failed unexpectedly.", <<>>))

\* C18: a failure of the removal of the temporary directory, in the deferred
\* cleanup or in the except block, does not change the response: its status
\* and body are those of the request whose removal succeeds, and the failure
\* is not raised again.
C18_CleanupFailureSilent ==
    (Finished /\ temp_dir_path # NoDir) =>
        response = ResponseExpected

\* shutil.rmtree raised in the except block after the engine had raised
C18_Witness ==
    /\ Finished
    /\ rmFailed
    /\ EngineRaised
    /\ response.status = 500
    /\ temp_dir_path \in dirs

\* the deferred cleanup failed after the file response was built
C18_WitnessDeferred ==
    /\ Finished
    /\ rmFailed
    /\ response.kind = "file"

\* extract_formats gave no video entry and no audio entry for the metadata
\* the engine returned to get_formats
NothingDownloadable ==
    /\ req.endpoint = "get-formats"
    /\ Len(engineLog) = 1
    /\ ~engineLog[1].raised
    /\ info_dict # None
    /\ \A i \in 1..Len(info_dict.formats) :
           \/ ~Usable(info_dict.formats[i])
           \/ /\ ~(Get(info_dict.formats[i], "vcodec") # Str("none")
                     /\ HasSize(info_dict.formats[i]))
              /\ ~AudioOnly(info_dict.formats[i])

\* C19: /api/get-formats never answers with success and two empty lists; when
\* extract_formats yields no video and no audio entry the answer is a 400
\* error that reports that no downloadable formats were found, or that the
\* video is a live stream.
C19_NoEmptySuccess ==
    /\ (HandlerReturned /\ req.endpoint = "get-formats" /\ response.status = 200) =>
           (response.formats.video # <<>> \/ response.formats.audio # <<>>)
    /\ (HandlerReturned /\ NothingDownloadable) =>
           /\ response.status = 400
           /\ response.error.msg \in
                  {"No downloadable video or audio formats found for this video.",
                   "Live streams cannot be downloaded until finished."}

(***************************************************************************)
(* Properties of concurrent downloads.                                     *)
(***************************************************************************)
\* the request has its directory and has not yet removed it
Live(j) == jobPc[j] \in {"download", "locate", "rename", "cleanup"}

\* C20: with download requests served concurrently in any interleaving, all
\* asking for the same file, the temporary directory of a request differs from
\* that of every other live request, and the files a locate, rename or cleanup
\* step reads, renames or removes are files of the request that makes the step.
C20_JobsIsolated ==
    /\ \A j, k \in Jobs : (j # k /\ Live(j) /\ Live(k)) => jobDir[j] # jobDir[k]
    /\ \A f \in lastOp.files : f.writer = lastOp.job
    /\ \A j \in Jobs : jobPc[j] = "rename" => jobFile[j].writer = j

\* a request removed its directory with its files while another request had
\* files of the same names in its own directory
C20_Witness ==
    /\ lastOp.step = "cleanup"
    /\ lastOp.files # {}
    /\ \E k \in Jobs :
           /\ k # lastOp.job
           /\ Live(k)
           /\ {[base |-> f.base, ext |-> f.ext] : f \in FilesIn(jobDir[k])}
                  = {[base |-> f.base, ext |-> f.ext] : f \in lastOp.files}

(***************************************************************************)
(* The running best audio entry against the sorted audio list.             *)
(***************************************************************************)
\* C23: whenever extract_formats returns a best-audio summary, its format id
\* is the format id of the first entry of the returned audio list: the
\* accumulator of lines 138-151 and the stable sort of line 158 agree on the
\* top audio entry.
C23_SummaryIsTopOfAudioList ==
    (ReturnedFormats /\ fmtOut.best # None) =>
        /\ fmtOut.audio # <<>>
        /\ fmtOut.best.id = fmtOut.audio[1].id

\* a bitrate that is not a number first, then the highest bitrate twice
C23_Witness ==
    /\ ReturnedFormats
    /\ fmtIn = <<Audio("a5", Str("high")), Audio("a2", Num(128)), Audio("a1", Num(128))>>
    /\ fmtOut.best # None
    /\ fmtOut.best.id = Str("a2")
    /\ fmtOut.audio[1].id = Str("a2")
    /\ fmtOut.audio[3].id = Str("a5")

(***************************************************************************)
(* Properties of the steps of download_video.                              *)
(***************************************************************************)
\* the engine's download call was made for the request
DownloadCalled == \E i \in 1..Len(engineLog) : engineLog[i].call = "download"

\* the lookup is about to be made and no descriptor of the refreshed list has
\* the requested format id
NoMatchingFormat ==
    /\ pc = "select"
    /\ \A i \in 1..Len(info_dict.formats) :
           Get(info_dict.formats[i], "format_id") # Str(req.format_id)

\* what has to be true once the lookup has failed
LookupFailed ==
    /\ pc \in {"except", "after_request", "transmit", "done"}
    /\ ~DownloadCalled
    /\ job = NoJob
    /\ HandlerReturned =>
           /\ response.kind = "json"
           /\ response.status \in {400, 500}

\* C22: in /api/download, when the requested format id matches no descriptor
\* of the refreshed format list, the job fails with an error response and the
\* engine's download call is never made for that request.
C22_UnknownFormatNeverDownloaded ==
    /\ [][NoMatchingFormat => (exc' = FormatNotFound /\ pc' = "except")]_vars
    /\ [](exc = FormatNotFound => LookupFailed)

\* the request for a format the refreshed list does not have has ended
C22_Witness ==
    /\ pc = "done"
    /\ req.endpoint = "download"
    /\ exc = FormatNotFound
    /\ Len(engineLog) = 1
    /\ ~engineLog[1].raised
    /\ response.kind = "json"
    /\ response.status = 500

\* the moves of a download request from one step to the next: the order of
\* the steps, and the except block from every step
StepMoves ==
    {<<"idle", "mkdtemp">>, <<"idle", "after_request">>, <<"mkdtemp", "resolve">>,
     <<"resolve", "select">>, <<"select", "download">>, <<"download", "locate">>,
     <<"locate", "rename">>, <<"rename", "send">>, <<"send", "after_request">>,
     <<"except", "after_request">>, <<"after_request", "transmit">>,
     <<"transmit", "done">>, <<"done", "idle">>}
    \cup {<<p, "except">> :
              p \in {"mkdtemp", "resolve", "select", "download", "locate", "rename", "send"}}

\* the engine's download call returned
DownloadSucceeded ==
    /\ Len(engineLog) = 2
    /\ ~engineLog[1].raised
    /\ engineLog[2].call = "download"
    /\ ~engineLog[2].raised

\* one step of a download request keeps the order, enters a step only when
\* the step before it succeeded, and after a failure does nothing but clean up
StepInOrder ==
    (req.endpoint = "download" \/ req'.endpoint = "download") =>
        /\ <<pc, pc'>> \in StepMoves
        /\ pc' = "download" =>
               /\ ~engineLog'[1].raised
               /\ Get(job'.selected, "format_id") = Str(req.format_id)
        /\ pc' = "locate" => DownloadSucceeded'
        /\ pc' = "rename" => job'.actual_temp_filepath \in tmpFiles'
        /\ pc' = "send" => job'.final_filename \in tmpFiles'
        /\ (response'.kind = "file" /\ response.kind # "file") =>
               /\ pc = "send"
               /\ exc = NoExc
               /\ DownloadSucceeded
               /\ job.actual_temp_filepath # NoFile
               /\ response'.file = job.final_filename
               /\ job.final_filename \in tmpFiles
        /\ pc' = "except" => exc' # NoExc
        /\ pc = "except" =>
               /\ engineLog' = engineLog
               /\ job' = job
               /\ tmpFiles' \in {tmpFiles, {}}
               /\ response'.kind = "json"
        /\ pc \in {"after_request", "transmit"} =>
               /\ engineLog' = engineLog
               /\ job' = job
               /\ response' = response

====
